---- MODULE Spec2Model ----
(***************************************************************************)
(* ann-music-note: the note constructor (src/src/properties.ts) and the    *)
(* static converters it is built from (src/src/methods.ts,                 *)
(* src/src/theory.ts).                                                     *)
(*                                                                         *)
(* Representation.                                                         *)
(*  - A JavaScript string is a sequence of one-character strings, so that  *)
(*    the tokenizer, the rendering of numbers and the parsing of digits    *)
(*    are computed character by character.                                 *)
(*  - An optional field of the init object is <<>> (undefined) or <<v>>.   *)
(*  - A frequency is an integer number of millihertz (440 Hz = 440000).    *)
(*    2 ** (k/12) is taken from a table of parts per million, so a         *)
(*    frequency is exact only where the exponent is a whole number of      *)
(*    octaves; everywhere else it is the table's value rounded down.       *)
(***************************************************************************)
EXTENDS Integers, Sequences, FiniteSets, TLC

VARIABLES phase, call, ret

vars == <<phase, call, ret>>

(***************************************************************************)
(* Bounds of the checked input space.                                      *)
(***************************************************************************)
\* longest run of characters that follows the first character of a name
MaxTail == 3
\* midi inputs range over -MidiSlack .. MIDI_MAX + MidiSlack
MidiSlack == 3
\* accidental runs given to Accidental.toAlteration have up to MaxRun characters
MaxRun == 3
\* names made of a letter and a long accidental run have up to MaxAccidentals accidentals
MaxAccidentals == 13
\* a note is transposed by -MaxShift .. MaxShift
MaxShift == 13
\* frequencies given to Frequency.toMidi lie up to MaxOctaveShift octaves from the tuning
MaxOctaveShift == 3

(***************************************************************************)
(* JavaScript arithmetic.                                                  *)
(***************************************************************************)
\* Math.floor(a / b) for b > 0
FloorDiv(a, b) == a \div b

\* a % b of JavaScript for b > 0: the result has the sign of a
JsRem(a, b) == IF a >= 0 THEN a % b ELSE -((-a) % b)

RECURSIVE Pow2(_)
Pow2(n) == IF n <= 0 THEN 1 ELSE 2 * Pow2(n - 1)

(***************************************************************************)
(* Theory constants.                                                       *)
(***************************************************************************)
A_440 == 440000

A4_KEY == 69

STANDARD_OCTAVE == 4

MIDI_MAX == 135

CHROMA_MAX == 11

ALL_NOTES ==
  << <<"C">>, <<"C", "#">>, <<"D", "b">>, <<"D">>, <<"D", "#">>, <<"E", "b">>,
     <<"E">>, <<"F">>, <<"F", "#">>, <<"G", "b">>, <<"G">>, <<"G", "#">>,
     <<"A", "b">>, <<"A">>, <<"A", "#">>, <<"B", "b">>, <<"B">> >>

\* acc.indexOf(note[1] || " ") >= 0
notes(acc) ==
  SelectSeq(ALL_NOTES, LAMBDA note : (IF Len(note) >= 2 THEN note[2] ELSE " ") \in acc)

SHARPS == notes({"#", " "})

FLATS == notes({"b", " "})

WHITE_KEYS == <<0, 2, 4, 5, 7, 9, 11>>

BLACK_KEYS == <<1, 3, 4, 8, 10>>

\* Array.prototype.includes
Includes(arr, x) == \E i \in 1..Len(arr) : arr[i] = x

\* Array.prototype.indexOf on SHARPS (0-based, -1 when absent)
IndexOf(arr, x) ==
  IF \E i \in 1..Len(arr) : arr[i] = x
  THEN (CHOOSE i \in 1..Len(arr) : arr[i] = x /\ \A j \in 1..(i - 1) : arr[j] # x) - 1
  ELSE -1

EmptyNote ==
  [name |-> <<>>, letter |-> "C", step |-> 0, octave |-> -1, accidental |-> <<>>,
   alteration |-> 0, pc |-> <<>>, chroma |-> 0, midi |-> -1, frequency |-> -1000,
   color |-> "", valid |-> FALSE]

(***************************************************************************)
(* Strings.                                                                *)
(***************************************************************************)
UpperLetters == {"A", "B", "C", "D", "E", "F", "G"}

LowerLetters == {"a", "b", "c", "d", "e", "f", "g"}

Digits == <<"0", "1", "2", "3", "4", "5", "6", "7", "8", "9">>

DigitChars == {Digits[i] : i \in 1..10}

DigitVal(c) == (CHOOSE i \in 1..10 : Digits[i] = c) - 1

\* String.prototype.charCodeAt(0) of an upper-case note letter
CharCode(c) ==
  CASE c = "A" -> 65 [] c = "B" -> 66 [] c = "C" -> 67 [] c = "D" -> 68
    [] c = "E" -> 69 [] c = "F" -> 70 [] c = "G" -> 71

Drop(s, n) == SubSeq(s, n + 1, Len(s))

Take(s, n) == SubSeq(s, 1, n)

\* the length of the longest prefix of s whose characters are all in S
RECURSIVE RunLen(_, _)
RunLen(s, S) == IF s # <<>> /\ s[1] \in S THEN 1 + RunLen(Tail(s), S) ELSE 0

\* the string "undefined", what a template literal renders for a missing value
UndefinedStr == <<"u", "n", "d", "e", "f", "i", "n", "e", "d">>

RECURSIVE NatToStr(_)
NatToStr(n) ==
  IF n < 10 THEN <<Digits[n + 1]>> ELSE NatToStr(n \div 10) \o <<Digits[(n % 10) + 1]>>

\* `${n}` for an integer n
IntToStr(n) == IF n < 0 THEN <<"-">> \o NatToStr(-n) ELSE NatToStr(n)

RECURSIVE DigitsToNat(_, _)
DigitsToNat(s, acc) ==
  IF s = <<>> THEN acc ELSE DigitsToNat(Tail(s), 10 * acc + DigitVal(s[1]))

\* Number.parseInt(s, 10) for s of the shape -?\d* ; nan stands for NaN
parseInt(s) ==
  LET neg  == s # <<>> /\ s[1] = "-"
      body == IF neg THEN Tail(s) ELSE s
      n    == RunLen(body, DigitChars)
      v    == DigitsToNat(Take(body, n), 0)
  IN  IF n = 0 THEN [nan |-> TRUE, v |-> 0]
      ELSE [nan |-> FALSE, v |-> IF neg THEN -v ELSE v]

\* BaseStrings.capitalize on a one-letter token
capitalize(s) ==
  IF s = <<>> THEN s
  ELSE <<CASE s[1] = "a" -> "A" [] s[1] = "b" -> "B" [] s[1] = "c" -> "C"
           [] s[1] = "d" -> "D" [] s[1] = "e" -> "E" [] s[1] = "f" -> "F"
           [] s[1] = "g" -> "G" [] OTHER -> s[1]>> \o Tail(s)

\* BaseStrings.substitute(s, /x/g, '##')
RECURSIVE substituteX(_)
substituteX(s) ==
  IF s = <<>> THEN <<>>
  ELSE (IF s[1] = "x" THEN <<"#", "#">> ELSE <<s[1]>>) \o substituteX(Tail(s))

(***************************************************************************)
(* REGEX and BaseStrings.tokenize(note, REGEX).  The pattern is, in order: *)
(*   Tletter      one of a-g or A-G                                        *)
(*   Taccidental  one or more '#', or one or more 'b', or one or more 'x', *)
(*                or nothing                                               *)
(*   Toct         an optional '-' and then any number of digits            *)
(*   Tduration    optionally '/' and one of 1, 2, 4, 8, 16, 32, 64         *)
(*   then any white space, and Trest takes whatever is left.               *)
(* Every quantifier is greedy and the last group takes whatever is left,   *)
(* so the first choice of every group is the match: nothing backtracks.    *)
(* (The strings of the model hold no line terminator.)                     *)
(***************************************************************************)
\* mutant: the accidental group is one character class, so a mixed run is one token
AccidentalLen_mixed(s) == RunLen(s, {"#", "b", "x"})

\* group Taccidental: a run of one character among #, b, x; or nothing
AccidentalLen(s) ==
  IF s = <<>> THEN 0
  ELSE IF s[1] = "#" THEN RunLen(s, {"#"})
  ELSE IF s[1] = "b" THEN RunLen(s, {"b"})
  ELSE IF s[1] = "x" THEN RunLen(s, {"x"})
  ELSE 0

\* group Toct: an optional minus sign and then digits
OctLen(s) ==
  IF s # <<>> /\ s[1] = "-" THEN 1 + RunLen(Tail(s), DigitChars)
  ELSE RunLen(s, DigitChars)

\* mutant: any digit after the slash counts as a duration
DurationLen_anyDigit(s) ==
  IF Len(s) >= 2 /\ s[1] = "/"
  THEN IF s[2] \in DigitChars THEN 2
       ELSE 0
  ELSE 0

\* group Tduration: the alternatives 1, 2, 4, 8, 16, 32, 64 are tried in that order,
\* so "/16" is matched as "/1"
DurationLen(s) ==
  IF Len(s) >= 2 /\ s[1] = "/"
  THEN IF s[2] \in {"1", "2", "4", "8"} THEN 2
       ELSE IF Len(s) >= 3 /\ s[2] = "3" /\ s[3] = "2" THEN 3
       ELSE IF Len(s) >= 3 /\ s[2] = "6" /\ s[3] = "4" THEN 3
       ELSE 0
  ELSE 0

NoTokens ==
  [Tletter |-> <<>>, Taccidental |-> <<>>, Toct |-> <<>>, Tduration |-> <<>>,
   Trest |-> <<>>]

\* REGEX.test(name): the name is a string (not undefined) that REGEX matches
RegexTest(s) == s # <<>> /\ s[1] \in (UpperLetters \cup LowerLetters)

tokenize(s) ==
  IF ~RegexTest(s) THEN NoTokens
  ELSE LET s1 == Tail(s)
           na == AccidentalLen(s1)
           s2 == Drop(s1, na)
           no == OctLen(s2)
           s3 == Drop(s2, no)
           nd == DurationLen(s3)
           s4 == Drop(s3, nd)
           ns == RunLen(s4, {" "})
       IN  [Tletter |-> <<s[1]>>, Taccidental |-> Take(s1, na), Toct |-> Take(s2, no),
            Tduration |-> Take(s3, nd), Trest |-> Drop(s4, ns)]

(***************************************************************************)
(* Static methods (src/src/methods.ts).                                    *)
(***************************************************************************)
\* 2 ** (k/12) - 1 in parts per million, k = 0 .. 11
SemitonePpm ==
  <<0, 59463, 122462, 189207, 259921, 334840, 414214, 498307, 587401, 681793,
    781797, 887749>>

\* t * 2 ** (k/12) for 0 <= k <= 11, rounded down, without leaving 32 bits
ScaleBySemitones(t, k) ==
  LET r == SemitonePpm[k + 1]
  IN  t + ((t \div 1000) * r) \div 1000 + ((t % 1000) * r) \div 1000000

\* what the model reports for a frequency above its 32-bit integers
FREQ_TOP == 2000000 * 1000
\* mutant: the tuning argument is dropped and the default is always used
toFrequency_defaultTuning(midi, tuning) ==
  LET e    == midi - A4_KEY
      oct  == FloorDiv(e, 12)
      base == ScaleBySemitones(A_440, e - 12 * oct)
  IN  IF oct >= 0
      THEN (IF oct > 11 THEN FREQ_TOP ELSE base * Pow2(oct))
      ELSE (IF oct < -30 THEN 0 ELSE base \div Pow2(-oct))

\* Midi.toFrequency: 2 ** ((midi - A4_KEY) / 12) * tuning
toFrequency(midi, tuning) ==
  LET e    == midi - A4_KEY
      oct  == FloorDiv(e, 12)
      base == ScaleBySemitones(tuning, e - 12 * oct)
  IN  IF oct >= 0
      THEN (IF oct > 11 THEN FREQ_TOP ELSE base * Pow2(oct))
      ELSE (IF oct < -30 THEN 0 ELSE base \div Pow2(-oct))

\* Midi.toOctaves: Math.floor(midi / 12)
toOctaves(midi) == FloorDiv(midi, 12)

\* mutant: Math.floor instead of Math.ceil, the greatest key not above f
toMidi_floor(f, tuning) ==
  LET S == {m \in -300..212 : toFrequency(m, tuning) <= f}
  IN  IF S = {} THEN -301 ELSE CHOOSE m \in S : (m + 1) \notin S

\* Frequency.toMidi: Math.ceil(12 * Math.log2(f / tuning) + A4_KEY), that is the
\* least key whose frequency under this tuning is at least f
toMidi(f, tuning) ==
  LET S == {m \in -300..212 : toFrequency(m, tuning) >= f}
  IN  IF S = {} THEN 213 ELSE CHOOSE m \in S : (m - 1) \notin S
\* mutant: the sign of a flat run is lost
toAlteration_unsigned(accidental) == Len(accidental)

\* Accidental.toAlteration: accidental.length * (accidental[0] === 'b' ? -1 : 1)
toAlteration(accidental) ==
  Len(accidental) * (IF accidental # <<>> /\ accidental[1] = "b" THEN -1 ELSE 1)

\* mutant: the letter is looked up in ALL_NOTES, where the flats are listed too
toIndex_allNotes(letter) == IndexOf(ALL_NOTES, <<letter>>)

\* Letter.toIndex: SHARPS.indexOf(letter)
toIndex(letter) == IndexOf(SHARPS, <<letter>>)

\* Letter.toStep: (letter.charCodeAt(0) + 3) % 7
toStep(letter) == (CharCode(letter) + 3) % 7
\* mutant: the default octave is 0
parse_zeroDefault(octave) ==
  LET n == parseInt(octave) IN IF ~n.nan THEN n.v ELSE 0

\* mutant: the parsed value is tested for truthiness, so octave 0 becomes the default
parse_falsy(octave) ==
  LET n == parseInt(octave) IN IF ~n.nan /\ n.v # 0 THEN n.v ELSE STANDARD_OCTAVE

\* Octave.parse: the parsed integer, or 4 when parseInt gives NaN
parse(octave) ==
  LET n == parseInt(octave) IN IF ~n.nan THEN n.v ELSE STANDARD_OCTAVE
\* mutant: the increment is forgotten
toSemitones_noInc(octave) == 12 * octave

\* Octave.toSemitones: 12 * inc(octave)
toSemitones(octave) == 12 * (octave + 1)
\* mutant: the upper end of the segment is not tested
isMidi_noUpper(midi) == midi # <<>> /\ midi[1] >= 0

\* Validators.isMidi on an optional integer
isMidi(midi) == midi # <<>> /\ midi[1] >= 0 /\ midi[1] <= MIDI_MAX

\* Validators.isFrequency on an optional number
isFrequency(freq) == freq # <<>> /\ freq[1] > 0

\* Validators.isName on an optional string: REGEX.test(name) === true
isName(name) == name # <<>> /\ RegexTest(name[1])

\* Validators.isChroma
isChroma(chroma) == chroma >= 0 /\ chroma <= CHROMA_MAX

\* Chroma.isWhite
isWhite(chroma) == Includes(WHITE_KEYS, chroma)

\* Chroma.isBlack
isBlack(chroma) == Includes(BLACK_KEYS, chroma)

(***************************************************************************)
(* The constructor (src/src/properties.ts).                                *)
(***************************************************************************)
\* NoteError(code, input, EmptyNote): reports the error and returns its last argument
NoteError(returnValue) == returnValue

\* arr[i] of JavaScript, rendered in a template literal
Element(arr, i) == IF i >= 0 /\ i < Len(arr) THEN arr[i + 1] ELSE UndefinedStr
\* mutant: the quotient is truncated toward zero instead of floored
octavesAltered_trunc(semitonesAltered) ==
  IF semitonesAltered >= 0 THEN semitonesAltered \div 12 ELSE -((-semitonesAltered) \div 12)

\* Math.floor(semitonesAltered / 12): the octaves the alteration carries into
octavesAltered(semitonesAltered) == FloorDiv(semitonesAltered, 12)
\* mutant: the negative branch is missing
chroma_plainRem(semitonesAltered, octsAltered) == JsRem(semitonesAltered, 12)

\* either((semitonesAltered - toSemitones(octsAltered) + 12) % 12,
\*        semitonesAltered % 12, isNegative(octsAltered))
chroma(semitonesAltered, octsAltered) ==
  IF octsAltered < 0
  THEN JsRem(semitonesAltered - toSemitones(octsAltered) + 12, 12)
  ELSE JsRem(semitonesAltered, 12)

\* the body of fromName once the name is tokenized: t holds Tletter, Taccidental,
\* Toct and Trest
fromTokens(t) ==
  IF t.Trest # <<>> \/ t.Tletter = <<>> THEN NoteError(EmptyNote)
  ELSE
    LET letter     == capitalize(t.Tletter)[1]
        step       == toStep(letter)
        accidental == substituteX(t.Taccidental)
        alteration == toAlteration(accidental)
        offset     == toIndex(letter)
        semitones  == offset + alteration
        octsAlt    == octavesAltered(semitones)
        octave     == parse(t.Toct) + octsAlt
        pitchClass == <<letter>> \o accidental
        chr        == chroma(semitones, octsAlt)
        midi       == toSemitones(octave) + chr
        frequency  == toFrequency(midi, A_440)
        name       == pitchClass \o IntToStr(octave)
        color      == IF isWhite(chr) THEN "white" ELSE "black"
    IN  [name |-> name, octave |-> octave, frequency |-> frequency, midi |-> midi,
         pc |-> pitchClass, chroma |-> chr, letter |-> letter, step |-> step,
         accidental |-> accidental, alteration |-> alteration, color |-> color,
         valid |-> TRUE]

fromName(note) == fromTokens(tokenize(note))

\* mutant: the spelling preference is ignored, the name is always taken from SHARPS
fromMidi_sharpsOnly(midi, useSharps) ==
  fromName(Element(SHARPS, JsRem(midi, 12)) \o IntToStr(toOctaves(midi)))

fromMidi(midi, useSharps) ==
  LET octave     == toOctaves(midi)
      chr        == JsRem(midi, 12)
      pitchClass == IF useSharps THEN Element(SHARPS, chr) ELSE Element(FLATS, chr)
      name       == pitchClass \o IntToStr(octave)
  IN  fromName(name)

fromFrequency(frequency, useSharps, tuning) ==
  LET midi == toMidi(frequency, tuning) IN fromMidi(midi, useSharps)

\* Note({ name, midi, frequency, sharps = true, tuning = 440 })
Note(init) ==
  LET sharps == IF init.sharps = <<>> THEN TRUE ELSE init.sharps[1]
      tuning == IF init.tuning = <<>> THEN 440000 ELSE init.tuning[1]
  IN  IF isName(init.name) THEN fromName(init.name[1])
      ELSE IF isMidi(init.midi) THEN fromMidi(init.midi[1], sharps)
      ELSE IF isFrequency(init.frequency)
           THEN fromFrequency(init.frequency[1], sharps, tuning)
      ELSE NoteError(EmptyNote)

(***************************************************************************)
(* Operations on notes (src/src/methods.ts).                               *)
(***************************************************************************)
\* a NoteInit that holds a name and nothing else: { name }
NameInit(name) ==
  [name |-> <<name>>, midi |-> <<>>, frequency |-> <<>>, sharps |-> <<>>,
   tuning |-> <<>>]

\* { midi }
MidiInit(midi) ==
  [name |-> <<>>, midi |-> <<midi>>, frequency |-> <<>>, sharps |-> <<>>,
   tuning |-> <<>>]

\* { frequency }
FrequencyInit(frequency) ==
  [name |-> <<>>, midi |-> <<>>, frequency |-> <<frequency>>, sharps |-> <<>>,
   tuning |-> <<>>]
\* mutant: the pitch class is always taken from SHARPS
Respell_sharps(note, keepAccidental) ==
  Element(SHARPS, note.chroma) \o IntToStr(note.octave)

\* the body of simplify after the note is built: the pitch class of the note's
\* chroma in SHARPS or in FLATS, and the note's octave
Respell(note, keepAccidental) ==
  LET isSharp   == note.alteration > 0
      useSharps == (isSharp = keepAccidental)
      pitchClass == IF useSharps THEN Element(SHARPS, note.chroma)
                    ELSE Element(FLATS, note.chroma)
  IN  pitchClass \o IntToStr(note.octave)

\* the letter of a note and its octave
LetterAndOctave(note) == <<note.letter>> \o IntToStr(note.octave)
\* mutant: the accidental is dropped, the letter of the input is kept
simplify_letter(name, keepAccidental) == LetterAndOctave(Note(NameInit(name)))

\* simplify(name, keepAccidental = true).  Note() always returns an object, so
\* the early return of undefined is never taken.
simplify(name, keepAccidental) == Respell(Note(NameInit(name)), keepAccidental)

\* enharmonic(note) = simplify(note, false)
enharmonic(note) == simplify(note, FALSE)

\* the init NoteTranspose builds the new note from, given the source note n
TransposedInit(b, n) ==
  IF b.prop = "frequency" THEN FrequencyInit(n.frequency + 1000 * b.value)
  ELSE IF b.prop = "octave" THEN NameInit(n.pc \o IntToStr(n.octave + b.value))
  ELSE MidiInit(n.midi + b.value)

\* the three returns of NoteTranspose
Transposed(b, n) == Note(TransposedInit(b, n))

\* NoteTranspose(by = { value: 1, prop: 'midi' }, note).  value is a whole number;
\* added to a frequency it is a number of hertz.
NoteTranspose(by, note) ==
  Transposed(IF by = <<>> THEN [value |-> 1, prop |-> "midi"] ELSE by[1], Note(note))
\* mutant: the distance is taken as a magnitude
NoteDistance_abs(note, other, compare) ==
  LET d == Note(other)[compare] - Note(note)[compare] IN IF d < 0 THEN -d ELSE d

\* NoteDistance(note, other, compare): o[compare] - n[compare]
NoteDistance(note, other, compare) == Note(other)[compare] - Note(note)[compare]

\* the relations of BaseRelations that CompareFn holds
CompareFn(f, a, b) ==
  CASE f = "lt"  -> a < b
    [] f = "leq" -> a <= b
    [] f = "eq"  -> a = b
    [] f = "neq" -> a # b
    [] f = "gt"  -> a > b
    [] f = "geq" -> a >= b
\* mutant: the two notes are passed to the relation in the other order
NoteCompare_swapped(f, note, other, compare) ==
  CompareFn(f, Note(other)[compare], Note(note)[compare])

\* NoteCompare(f, note, other, compare): fn(first[compare], second[compare])
NoteCompare(f, note, other, compare) ==
  CompareFn(f, Note(note)[compare], Note(other)[compare])

(***************************************************************************)
(* The calls that are checked.  Every behaviour is one call: the initial   *)
(* state holds the function and its argument, the step applies the         *)
(* function and stores what it returns.                                    *)
(***************************************************************************)
FirstChars == {"C", "D", "E", "F", "G", "A", "B", "c", "b", "H"}

TailChars == {"#", "b", "x", "-", "0", "1", "4", "/", " "}

Strings(chars, n) == UNION {[1..k -> chars] : k \in 0..n}

Names == {<<f>> \o t : f \in FirstChars, t \in Strings(TailChars, MaxTail)}

MidiInputs == ((-MidiSlack)..(MIDI_MAX + MidiSlack)) \cup {-12, 200}

FreqInputs ==
  {-5000, 0, 1, 8176, 27500, 261626, 415305, 432000, 439999, 440000, 440001,
   466164, 880000, 12543854, 19912127, 21096164, 30000000}

Tunings == {432000, 440000, 442000}

Opt(S) == {<<>>} \cup {<<x>> : x \in S}

\* names that also come with a midi, a frequency or a tuning
MixedNames ==
  { <<"A", "4">>, <<"C", "b", "4">>, <<"C", "#", "b", "4">>, <<"C", "4", "q">>,
    <<"H", "4">>, <<>> }

NoteInit(name, midi, frequency, sharps, tuning) ==
  [name |-> name, midi |-> midi, frequency |-> frequency, sharps |-> sharps,
   tuning |-> tuning]

NoteInits ==
  {NoteInit(<<n>>, <<>>, <<>>, <<>>, <<>>) : n \in Names}
  \cup {NoteInit(<<>>, m, <<>>, s, t) :
          m \in Opt(MidiInputs), s \in Opt(BOOLEAN), t \in Opt({432000})}
  \cup {NoteInit(<<>>, <<>>, <<f>>, s, t) :
          f \in FreqInputs, s \in Opt(BOOLEAN), t \in Opt(Tunings)}
  \cup {NoteInit(<<n>>, m, f, <<>>, t) :
          n \in MixedNames, m \in Opt({60, 200}), f \in Opt({440000, -5000}),
          t \in Opt({432000})}

\* a letter and a run of up to MaxAccidentals sharps or flats, in the default octave
LongRunNames ==
  {<<l>> \o [i \in 1..n |-> a] : l \in UpperLetters, a \in {"#", "b"},
                                 n \in (MaxTail + 1)..MaxAccidentals}

\* t * 2 ** k for a whole number of octaves k
OctavePitch(t, k) == IF k >= 0 THEN t * Pow2(k) ELSE t \div Pow2(-k)

\* frequencies at, just below and just above the tuning moved by whole octaves
ToMidiFreqs ==
  FreqInputs \cup
  {OctavePitch(t, k) + d : t \in Tunings, k \in (-MaxOctaveShift)..MaxOctaveShift,
                           d \in {-1, 0, 1}}

\* names with one character less than the longest
ShortNames == {<<f>> \o t : f \in FirstChars, t \in Strings(TailChars, MaxTail - 1)}

\* spellings: a letter, up to two accidentals, and an octave or none
SpelledNames ==
  {<<l>> \o a \o o :
     l \in UpperLetters \cup {"c", "b"},
     a \in {<<>>, <<"#">>, <<"#", "#">>, <<"b">>, <<"b", "b">>, <<"x">>},
     o \in {<<>>, <<"4">>, <<"0">>, <<"-", "1">>, <<"1", "0">>}}

\* names with a duration, with white space, and names that are not accepted
OddNames ==
  { <<"C", "4", "/", "4">>, <<"C", "#", "4", " ">>, <<"b", "-">>, <<"H", "4">>,
    <<"C", "#", "b", "4">>, <<"C", "4", "#">>, <<"C", "/", "1", "0">>, <<"x">> }

\* the names given to simplify and enharmonic
SimplifyNames == SpelledNames \cup OddNames

\* the notes that are transposed, measured and compared
OperandNames ==
  { <<"C", "4">>, <<"D", "4">>, <<"A", "4">>, <<"C", "5">>, <<"B", "3">>,
    <<"C", "b", "4">>, <<"B", "#", "4">>, <<"C", "-", "1">>, <<"D", "#", "1", "0">>,
    <<"C", "1", "1">>, <<"H", "4">> }

Operands ==
  {NameInit(n) : n \in OperandNames}
  \cup {MidiInit(m) : m \in {0, 60, 69, 200}}
  \cup {FrequencyInit(f) : f \in {440000}}

Properties == {"midi", "frequency", "chroma", "octave"}

Relations == {"lt", "leq", "eq", "neq", "gt", "geq"}

Transposables ==
  [value : (-MaxShift)..MaxShift, prop : {"midi", "frequency", "octave"}]

Init ==
  /\ phase = "call"
  /\ ret = <<>>
  /\ \/ \E i \in NoteInits : call = [fn |-> "Note", init |-> i]
     \/ \E m \in MidiInputs : call = [fn |-> "toOctaves", midi |-> m]
     \/ \E m \in MidiInputs, t \in Opt(Tunings) :
          call = [fn |-> "toFrequency", midi |-> m, tuning |-> t]
     \/ \E a \in Strings({"#", "b"}, MaxRun) :
          call = [fn |-> "toAlteration", accidental |-> a]
     \/ \E n \in LongRunNames : call = [fn |-> "Note", init |-> NameInit(n)]
     \/ \E n \in Opt(ShortNames) : call = [fn |-> "isName", name |-> n]
     \/ \E f \in ToMidiFreqs, t \in Opt(Tunings) :
          call = [fn |-> "toMidi", f |-> f, tuning |-> t]
     \/ \E n \in SimplifyNames : call = [fn |-> "enharmonic", note |-> n]
     \/ \E n \in SimplifyNames, k \in Opt(BOOLEAN) :
          call = [fn |-> "simplify", name |-> n, keepAccidental |-> k]
     \/ \E c \in 0..CHROMA_MAX : call = [fn |-> "isWhite", chroma |-> c]
     \/ \E c \in 0..CHROMA_MAX : call = [fn |-> "isBlack", chroma |-> c]
     \/ \E by \in Opt(Transposables), n \in Operands :
          call = [fn |-> "Transpose", by |-> by, note |-> n]
     \/ \E n \in Operands, o \in Operands, p \in Properties :
          call = [fn |-> "Distance", note |-> n, other |-> o, compare |-> p]
     \/ \E f \in Relations, n \in Operands, o \in Operands, p \in Properties :
          call = [fn |-> "Compare", f |-> f, note |-> n, other |-> o, compare |-> p]

CallNote ==
  /\ phase = "call" /\ call.fn = "Note"
  /\ ret' = Note(call.init)
  /\ phase' = "return"
  /\ UNCHANGED call

CallToOctaves ==
  /\ phase = "call" /\ call.fn = "toOctaves"
  /\ ret' = toOctaves(call.midi)
  /\ phase' = "return"
  /\ UNCHANGED call

\* toFrequency(midi, tuning = A_440)
CallToFrequency ==
  /\ phase = "call" /\ call.fn = "toFrequency"
  /\ ret' = toFrequency(call.midi, IF call.tuning = <<>> THEN A_440 ELSE call.tuning[1])
  /\ phase' = "return"
  /\ UNCHANGED call

CallToAlteration ==
  /\ phase = "call" /\ call.fn = "toAlteration"
  /\ ret' = toAlteration(call.accidental)
  /\ phase' = "return"
  /\ UNCHANGED call

CallIsName ==
  /\ phase = "call" /\ call.fn = "isName"
  /\ ret' = isName(call.name)
  /\ phase' = "return"
  /\ UNCHANGED call

\* toMidi(f, tuning = A_440)
CallToMidi ==
  /\ phase = "call" /\ call.fn = "toMidi"
  /\ ret' = toMidi(call.f, IF call.tuning = <<>> THEN A_440 ELSE call.tuning[1])
  /\ phase' = "return"
  /\ UNCHANGED call

\* enharmonic(note); ret collects the names returned so far
CallEnharmonic ==
  /\ phase = "call" /\ call.fn = "enharmonic"
  /\ ret' = <<enharmonic(call.note)>>
  /\ phase' = "return"
  /\ UNCHANGED call

\* enharmonic applied to the name the first application returned
CallEnharmonicAgain ==
  /\ phase = "return" /\ call.fn = "enharmonic" /\ Len(ret) = 1
  /\ ret' = Append(ret, enharmonic(ret[1]))
  /\ UNCHANGED <<phase, call>>

CallTranspose ==
  /\ phase = "call" /\ call.fn = "Transpose"
  /\ ret' = NoteTranspose(call.by, call.note)
  /\ phase' = "return"
  /\ UNCHANGED call

CallDistance ==
  /\ phase = "call" /\ call.fn = "Distance"
  /\ ret' = NoteDistance(call.note, call.other, call.compare)
  /\ phase' = "return"
  /\ UNCHANGED call

CallCompare ==
  /\ phase = "call" /\ call.fn = "Compare"
  /\ ret' = NoteCompare(call.f, call.note, call.other, call.compare)
  /\ phase' = "return"
  /\ UNCHANGED call

\* simplify(name, keepAccidental = true)
CallSimplify ==
  /\ phase = "call" /\ call.fn = "simplify"
  /\ ret' = simplify(call.name,
                     IF call.keepAccidental = <<>> THEN TRUE ELSE call.keepAccidental[1])
  /\ phase' = "return"
  /\ UNCHANGED call

CallIsWhite ==
  /\ phase = "call" /\ call.fn = "isWhite"
  /\ ret' = isWhite(call.chroma)
  /\ phase' = "return"
  /\ UNCHANGED call

CallIsBlack ==
  /\ phase = "call" /\ call.fn = "isBlack"
  /\ ret' = isBlack(call.chroma)
  /\ phase' = "return"
  /\ UNCHANGED call

Next ==
  \/ CallNote \/ CallToOctaves \/ CallToFrequency \/ CallToAlteration
  \/ CallIsName \/ CallToMidi \/ CallEnharmonic \/ CallEnharmonicAgain
  \/ CallTranspose \/ CallDistance \/ CallCompare
  \/ CallSimplify \/ CallIsWhite \/ CallIsBlack

Spec == Init /\ [][Next]_vars

(***************************************************************************)
(* Vocabulary of the properties.  These definitions state what the         *)
(* specification says; none of them is computed by the code above.         *)
(***************************************************************************)
Returned(fn) == phase = "return" /\ call.fn = fn

\* the call was Note(init) with a name in the init
NamedNote == Returned("Note") /\ call.init.name # <<>>

\* the call was Note({midi}) possibly with sharps and tuning, and nothing else
MidiOnlyNote ==
  Returned("Note") /\ call.init.name = <<>> /\ call.init.midi # <<>>
    /\ call.init.frequency = <<>>

\* semitones of a note letter above C
LetterOffset(c) ==
  CASE c \in {"C", "c"} -> 0 [] c \in {"D", "d"} -> 2 [] c \in {"E", "e"} -> 4
    [] c \in {"F", "f"} -> 5 [] c \in {"G", "g"} -> 7 [] c \in {"A", "a"} -> 9
    [] c \in {"B", "b"} -> 11

IsRunOf(s, c) == \A i \in 1..Len(s) : s[i] = c

\* one or more '#', or one or more 'b', or nothing
IsAccidentalRun(s) == IsRunOf(s, "#") \/ IsRunOf(s, "b")

\* the alteration an accidental run stands for: +1 for each '#', -1 for each 'b'
RunAlteration(s) == IF s # <<>> /\ s[1] = "b" THEN -Len(s) ELSE Len(s)

IsDigits(s) == s # <<>> /\ \A i \in 1..Len(s) : s[i] \in DigitChars

\* '-'? digit+
IsSignedDigits(s) ==
  IsDigits(s) \/ (s # <<>> /\ s[1] = "-" /\ IsDigits(Tail(s)))

\* the decimal numeral of an integer, as a number is rendered: no leading zero, no "-0"
IsNumeral(s) ==
  /\ IsSignedDigits(s)
  /\ LET d == IF s[1] = "-" THEN Tail(s) ELSE s
     IN  /\ (Len(d) > 1 => d[1] # "0")
         /\ (s[1] = "-" => d # <<"0">>)

RECURSIVE NumeralValue(_)
NumeralValue(d) ==
  IF d = <<>> THEN 0
  ELSE 10 * NumeralValue(Take(d, Len(d) - 1)) + DigitVal(d[Len(d)])

\* the length of the accidental run that follows the letter of a name
WrittenRun(n) ==
  IF Len(n) >= 2 /\ n[2] \in {"#", "b"} THEN RunLen(Tail(n), {n[2]}) ELSE 0

WrittenAccidental(n) == SubSeq(n, 2, 1 + WrittenRun(n))

WrittenOctaveDigits(n) == Drop(n, 1 + WrittenRun(n))

\* the octave a name is written with, 4 when it has no octave digits
WrittenOctave(n) ==
  LET d == WrittenOctaveDigits(n)
  IN  IF d = <<>> THEN 4
      ELSE IF d[1] = "-" THEN -NumeralValue(Tail(d)) ELSE NumeralValue(d)

\* the note-name grammar: letter accidental? octave?, and nothing else
IsGrammaticalName(n) ==
  /\ n # <<>>
  /\ n[1] \in (UpperLetters \cup LowerLetters)
  /\ (WrittenOctaveDigits(n) = <<>> \/ IsSignedDigits(WrittenOctaveDigits(n)))

\* a name as the constructor renders it: upper-case letter, accidental run, numeral
IsRenderedName(n) ==
  /\ n # <<>>
  /\ n[1] \in UpperLetters
  /\ IsNumeral(WrittenOctaveDigits(n))

\* the alteration keeps the pitch inside the written octave
NoCarry(n) ==
  LET semis == LetterOffset(n[1]) + RunAlteration(WrittenAccidental(n))
  IN  semis >= 0 /\ semis <= 11

DurationSuffixes ==
  {<<>>, <<"/", "1">>, <<"/", "2">>, <<"/", "4">>, <<"/", "8">>,
   <<"/", "3", "2">>, <<"/", "6", "4">>}

\* what the name pattern takes with nothing left over: a letter, a run of one of
\* '#', 'b', 'x' or nothing, an optional '-' and any digits, one of the duration
\* suffixes, and spaces
IsAcceptedName(n) ==
  /\ n # <<>>
  /\ n[1] \in (UpperLetters \cup LowerLetters)
  /\ \E i \in 1..Len(n), j \in 1..Len(n), k \in 1..Len(n) :
       /\ i <= j /\ j <= k
       /\ LET acc == SubSeq(n, 2, i)
              oct == SubSeq(n, i + 1, j)
              dur == SubSeq(n, j + 1, k)
              ws  == SubSeq(n, k + 1, Len(n))
          IN  /\ IsRunOf(acc, "#") \/ IsRunOf(acc, "b") \/ IsRunOf(acc, "x")
              /\ \/ oct = <<>>
                 \/ oct = <<"-">>
                 \/ IsSignedDigits(oct)
              /\ dur \in DurationSuffixes
              /\ IsRunOf(ws, " ")

InMidiRange(m) == m # <<>> /\ m[1] >= 0 /\ m[1] <= 135

IsPositive(f) == f # <<>> /\ f[1] > 0

(***************************************************************************)
(* Properties.                                                             *)
(***************************************************************************)

\* C1: MIDI round trip.  For every integer midi in 0..135 and either spelling
\* preference, Note({midi}) is a valid record whose midi field is the input midi.
\* (As claimed; the code violates it, see C2.)
C1_MidiRoundTrip ==
  (MidiOnlyNote /\ InMidiRange(call.init.midi))
    => (ret.valid /\ ret.midi = call.init.midi[1])

\* C2: octave of a MIDI key.  For every midi in 0..135, Midi.toOctaves(midi) is
\* floor(midi / 12) - 1 (toOctaves(69) = 4), and Note({midi}).octave is that value
\* (Note({midi: 60}).octave = 4).  (As claimed; the code returns floor(midi / 12).)
C2_OctaveOfMidi ==
  /\ (Returned("toOctaves") /\ call.midi >= 0 /\ call.midi <= 135)
       => ret = (call.midi \div 12) - 1
  /\ (MidiOnlyNote /\ InMidiRange(call.init.midi))
       => ret.octave = (call.init.midi[1] \div 12) - 1

\* C3: name round trip.  For every name in rendered form (upper-case letter, a run
\* of only '#' or only 'b', the numeral of the octave) whose letter offset plus
\* alteration stays within 0..11, Note({name}).name is the input name.
C3_NameRoundTrip ==
  (NamedNote /\ IsRenderedName(call.init.name[1]) /\ NoCarry(call.init.name[1]))
    => (ret.valid /\ ret.name = call.init.name[1])

\* C3 witness: a rendered name with a flat and a negative octave came back
C3_Witness ==
  /\ NamedNote
  /\ call.init.name[1] = <<"E", "b", "-", "1">>
  /\ IsRenderedName(call.init.name[1]) /\ NoCarry(call.init.name[1])
  /\ ret.name = <<"E", "b", "-", "1">>

\* the inputs C4 names: {name: "H4"}, {midi: 200}, {frequency: -5} and {}
C4_NamedInputs ==
  { NoteInit(<< <<"H", "4">> >>, <<>>, <<>>, <<>>, <<>>),
    NoteInit(<<>>, <<200>>, <<>>, <<>>, <<>>),
    NoteInit(<<>>, <<>>, <<-5000>>, <<>>, <<>>),
    NoteInit(<<>>, <<>>, <<>>, <<>>, <<>>) }

C5_ChromaRange ==
  (Returned("Note") /\ ret.valid) => (ret.chroma >= 0 /\ ret.chroma <= 11)

\* C5 witness: a triple flat on D carried below C and gave chroma 11
C5_Witness ==
  /\ NamedNote
  /\ call.init.name[1] = <<"D", "b", "b", "b">>
  /\ ret.valid /\ ret.chroma = 11

\* C6: record consistency.  Every valid record satisfies
\* midi = 12 * (octave + 1) + chroma on its own fields, also when the accidental
\* carries into another octave.
C6_RecordConsistency ==
  (Returned("Note") /\ ret.valid) => ret.midi = 12 * (ret.octave + 1) + ret.chroma

\* C6 witness: "B#4" carried into octave 5
C6_Witness ==
  /\ NamedNote
  /\ call.init.name[1] = <<"B", "#", "4">>
  /\ ret.valid /\ ret.octave = 5 /\ ret.chroma = 0 /\ ret.midi = 72

\* C7: octave carry.  For every grammatical name with letter L, alteration a and
\* written octave o (4 when absent), the record's octave is
\* o + floor((offset(L) + a) / 12) and its midi is 12 * (o + 1) + offset(L) + a;
\* "Cb4" has chroma 11, octave 3 and the midi of "B3", and "B#4" has the midi of "C5".
C7_OctaveCarry ==
  (NamedNote /\ IsGrammaticalName(call.init.name[1])) =>
    LET n     == call.init.name[1]
        o     == WrittenOctave(n)
        semis == LetterOffset(n[1]) + RunAlteration(WrittenAccidental(n))
    IN  /\ ret.valid
        /\ ret.octave = o + (semis \div 12)
        /\ ret.midi = 12 * (o + 1) + semis
        /\ n = <<"C", "b", "4">> =>
             /\ ret.chroma = 11 /\ ret.octave = 3
             /\ ret.midi = fromName(<<"B", "3">>).midi
        /\ n = <<"B", "#", "4">> => ret.midi = fromName(<<"C", "5">>).midi

\* C7 witness: "Cb4" was built in octave 3 with midi 59
C7_Witness ==
  /\ NamedNote
  /\ call.init.name[1] = <<"C", "b", "4">>
  /\ ret.octave = 3 /\ ret.midi = 59

\* C8: Midi.toFrequency at the reference key.  toFrequency(69) with the default
\* tuning is exactly 440 and toFrequency(69, t) is exactly t.
C8_ReferenceKey ==
  (Returned("toFrequency") /\ call.midi = 69)
    => ret = (IF call.tuning = <<>> THEN 440000 ELSE call.tuning[1])

\* C8 witness: toFrequency(69, 432) returned 432
C8_Witness ==
  Returned("toFrequency") /\ call.midi = 69 /\ call.tuning = <<432000>> /\ ret = 432000

\* C9: the record's frequency follows the effective tuning.  Every valid record has
\* frequency = tuning * 2 ^ ((midi - 69) / 12) with the caller's tuning when one is
\* given and 440 otherwise; Note({midi: 69}).frequency is exactly 440.
\* (As claimed; the code always uses 440.)
C9_FrequencyFollowsTuning ==
  /\ (Returned("Note") /\ ret.valid)
       => ret.frequency =
            toFrequency(ret.midi,
                        IF call.init.tuning = <<>> THEN 440000 ELSE call.init.tuning[1])
  /\ (MidiOnlyNote /\ call.init.midi = <<69>> /\ call.init.tuning = <<>>)
       => ret.frequency = 440000

\* C10: alteration from accidental.  Accidental.toAlteration of a run of n '#' is
\* +n, of a run of n 'b' is -n and of the empty string 0; the alteration field of
\* every valid record obeys the same rule for its accidental field.
C10_Alteration ==
  /\ (Returned("toAlteration") /\ IsAccidentalRun(call.accidental))
       => ret = RunAlteration(call.accidental)
  /\ (Returned("Note") /\ ret.valid)
       => (IsAccidentalRun(ret.accidental) /\ ret.alteration = RunAlteration(ret.accidental))

\* C10 witness: toAlteration("bb") returned -2
C10_Witness ==
  Returned("toAlteration") /\ call.accidental = <<"b", "b">> /\ ret = -2

(***************************************************************************)
(* Operations on notes: vocabulary.                                        *)
(***************************************************************************)
\* the transposition a Transpose call asks for, { value: 1, prop: 'midi' } by default
By == IF call.by = <<>> THEN [value |-> 1, prop |-> "midi"] ELSE call.by[1]

\* the init is { name } with a name of the grammar letter accidental? octave?
IsNamed(init) ==
  /\ init.name # <<>> /\ init.midi = <<>> /\ init.frequency = <<>>
  /\ IsGrammaticalName(init.name[1])

\* the key a name of the grammar stands for: 12 * (octave + 1) + offset + alteration
NameMidi(n) ==
  12 * (WrittenOctave(n) + 1) + LetterOffset(n[1]) + RunAlteration(WrittenAccidental(n))

\* x op y for the six relations
Holds(op, x, y) ==
  \/ op = "lt" /\ x < y
  \/ op = "leq" /\ x <= y
  \/ op = "eq" /\ x = y
  \/ op = "neq" /\ x # y
  \/ op = "gt" /\ x > y
  \/ op = "geq" /\ x >= y

\* C11: enharmonic double application.  For every valid name x, the note of
\* enharmonic(enharmonic(x)) has the same chroma and octave as the note of x.
C11_EnharmonicTwice ==
  ( /\ Returned("enharmonic") /\ Len(ret) = 2
    /\ Note(NameInit(call.note)).valid )
    => LET a == Note(NameInit(call.note))
           b == Note(NameInit(ret[2]))
       IN  b.valid /\ b.chroma = a.chroma /\ b.octave = a.octave

\* C11 witness: enharmonic("C#4") is "Db4" and enharmonic("Db4") is "C#4"
C11_Witness ==
  /\ Returned("enharmonic")
  /\ call.note = <<"C", "#", "4">>
  /\ ret = << <<"D", "b", "4">>, <<"C", "#", "4">> >>

\* C12: transpose by midi.  For a valid source note with midi m and an amount k,
\* transposing on the midi property returns a valid note with midi m + k when
\* m + k is in 0..135 (A4 transposed by 1 is named "A#4"), and the invalid
\* sentinel otherwise.
C12_TransposeByMidi ==
  ( /\ Returned("Transpose") /\ By.prop = "midi"
    /\ Note(call.note).valid )
    => LET m == Note(call.note).midi
           k == By.value
       IN  IF m + k >= 0 /\ m + k <= 135
           THEN /\ ret.valid /\ ret.midi = m + k
                /\ (call.note = NameInit(<<"A", "4">>) /\ k = 1
                      => ret.name = <<"A", "#", "4">>)
           ELSE ret = EmptyNote

\* C13: distance.  For valid notes and a property p among midi, chroma and octave,
\* Distance(note, other, p) is Note(other)[p] - Note(note)[p], a signed integer:
\* distance(C4, C5, midi) = 12, distance(a, b, p) = -distance(b, a, p), and the
\* chroma distance is the plain difference in -11..11.  Between two names of the
\* grammar the midi distance is the difference of the keys the names stand for.
C13_Distance ==
  ( /\ Returned("Distance") /\ call.compare \in {"midi", "chroma", "octave"}
    /\ Note(call.note).valid /\ Note(call.other).valid )
    => /\ ret = Note(call.other)[call.compare] - Note(call.note)[call.compare]
       /\ ret = -NoteDistance(call.other, call.note, call.compare)
       /\ (call.compare = "chroma" => ret >= -11 /\ ret <= 11)
       /\ (call.compare = "midi" /\ IsNamed(call.note) /\ IsNamed(call.other)
             => ret = NameMidi(call.other.name[1]) - NameMidi(call.note.name[1]))
       /\ (call.compare = "midi" /\ call.note = NameInit(<<"C", "4">>)
             /\ call.other = NameInit(<<"C", "5">>) => ret = 12)

\* C13 witness: the chroma distance from B3 to C4 is -11, not 1
C13_Witness ==
  /\ Returned("Distance")
  /\ call.note = NameInit(<<"B", "3">>) /\ call.other = NameInit(<<"C", "4">>)
  /\ call.compare = "chroma"
  /\ ret = -11

\* C14: compare.  For valid notes a and b, a property p and a relation op,
\* Compare(op, a, b, p) is the truth value of Note(a)[p] op Note(b)[p]
\* (compare("lt", C4, D4, "midi") is true); for every pair exactly one of lt, eq,
\* gt holds, leq = lt or eq, geq = gt or eq, and neq = not eq.
C14_Compare ==
  ( /\ Returned("Compare")
    /\ Note(call.note).valid /\ Note(call.other).valid )
    => LET is(op) == NoteCompare(op, call.note, call.other, call.compare)
       IN  /\ ret = Holds(call.f, Note(call.note)[call.compare],
                          Note(call.other)[call.compare])
           /\ (call.compare = "midi" /\ IsNamed(call.note) /\ IsNamed(call.other)
                 => ret = Holds(call.f, NameMidi(call.note.name[1]),
                                NameMidi(call.other.name[1])))
           /\ Cardinality({op \in {"lt", "eq", "gt"} : is(op)}) = 1
           /\ is("leq") = (is("lt") \/ is("eq"))
           /\ is("geq") = (is("gt") \/ is("eq"))
           /\ is("neq") = ~is("eq")

\* C14 witness: compare("lt", C4, D4, "midi") is true
C14_Witness ==
  /\ Returned("Compare")
  /\ call.f = "lt" /\ call.compare = "midi"
  /\ call.note = NameInit(<<"C", "4">>) /\ call.other = NameInit(<<"D", "4">>)
  /\ ret = TRUE

(***************************************************************************)
(* Names, validators and dispatch.                                         *)
(***************************************************************************)
\* the init is { name } and nothing else
NameOnly(init) == init.name # <<>> /\ init.midi = <<>> /\ init.frequency = <<>>

StartsWithLetter(n) == n # <<>> /\ n[1] \in (UpperLetters \cup LowerLetters)

\* the characters of '#' and 'b' that directly follow the letter of a name
SharpFlatRun(n) == Take(Tail(n), RunLen(Tail(n), {"#", "b"}))

\* the run holds a '#' and a 'b'
IsMixedRun(r) == (\E i \in 1..Len(r) : r[i] = "#") /\ (\E i \in 1..Len(r) : r[i] = "b")

C16_IsName ==
  Returned("isName")
    => /\ ret = (call.name # <<>> /\ IsGrammaticalName(call.name[1]))
       /\ ret = (call.name # <<>> /\ Note(NameInit(call.name[1])).valid)

\* C17: mixed accidentals are rejected.  A name whose accidental holds both '#'
\* and 'b' ("C#b4", "Db#") gives the invalid sentinel, while a run of only '#'
\* or only 'b' of any length is accepted.
C17_MixedAccidentals ==
  ( /\ Returned("Note") /\ NameOnly(call.init)
    /\ StartsWithLetter(call.init.name[1]) )
    => LET n   == call.init.name[1]
           run == SharpFlatRun(n)
       IN  /\ IsMixedRun(run) => ret = EmptyNote
           /\ (run # <<>> /\ ~IsMixedRun(run) /\ IsGrammaticalName(n))
                => /\ ret.valid
                   /\ ret.accidental = run
                   /\ ret.alteration = RunAlteration(run)

\* C17 witness: "C#b4" gave the sentinel
C17_Witness ==
  /\ Returned("Note")
  /\ call.init = NameInit(<<"C", "#", "b", "4">>)
  /\ ret = EmptyNote

\* C18: frequency to MIDI uses the ceiling.  A frequency exactly at the tuning
\* moved by k octaves maps to 69 + 12k, a frequency just above it maps to the
\* next key and one just below it maps to 69 + 12k again; a frequency strictly
\* between two such pitches maps to a key above the lower and up to the higher.
C18_ToMidiCeiling ==
  ( Returned("toMidi") /\ call.f > 0 )
    => LET t == IF call.tuning = <<>> THEN 440000 ELSE call.tuning[1]
       IN  \A k \in (-MaxOctaveShift)..MaxOctaveShift :
             /\ call.f = OctavePitch(t, k) => ret = 69 + 12 * k
             /\ call.f = OctavePitch(t, k) + 1 => ret = 69 + 12 * k + 1
             /\ call.f = OctavePitch(t, k) - 1 => ret = 69 + 12 * k
             /\ (OctavePitch(t, k) < call.f /\ call.f <= 2 * OctavePitch(t, k))
                  => (69 + 12 * k < ret /\ ret <= 69 + 12 * (k + 1))

\* C18 witness: 440.001 Hz under the default tuning is key 70
C18_Witness ==
  /\ Returned("toMidi")
  /\ call.f = 440001 /\ call.tuning = <<>>
  /\ ret = 70

\* C19: chroma formula.  For every name of the grammar with letter offset off and
\* alteration a of either sign, the record's chroma is
\* ((off + a) mod 12 + 12) mod 12, whichever branch of fromName computed it.
C19_ChromaFormula ==
  ( Returned("Note") /\ IsNamed(call.init) )
    => LET n   == call.init.name[1]
           sum == LetterOffset(n[1]) + RunAlteration(WrittenAccidental(n))
       IN  /\ ret.valid
           /\ ret.chroma = (JsRem(sum, 12) + 12) % 12

\* C19 witness: C with thirteen flats is two octaves down, chroma 11
C19_Witness ==
  /\ Returned("Note")
  /\ IsNamed(call.init)
  /\ call.init.name[1][1] = "C"
  /\ RunAlteration(WrittenAccidental(call.init.name[1])) = -13
  /\ ret.chroma = 11

\* C20: dispatch precedence.  The constructor uses the first applicable input in
\* the order name, midi, frequency: a grammatical name wins over a midi or a
\* frequency; when the name is absent or does not match and midi is in 0..135
\* the record is the one built from midi; otherwise the one built from a
\* positive frequency; otherwise the sentinel.  (Every name the pattern takes
\* counts as grammatical here.)
C20_DispatchPrecedence ==
  Returned("Note")
    => LET i     == call.init
           named == i.name # <<>> /\ IsAcceptedName(i.name[1])
       IN  IF named THEN ret.valid /\ ret = Note(NameInit(i.name[1]))
           ELSE IF InMidiRange(i.midi)
                THEN ret.valid /\ ret = Note([i EXCEPT !.name = <<>>])
           ELSE IF IsPositive(i.frequency)
                THEN ret = Note([i EXCEPT !.name = <<>>, !.midi = <<>>])
           ELSE ret = EmptyNote

(***************************************************************************)
(* Spelling, octaves and the keys of a record.                             *)
(***************************************************************************)
UpperOf(c) ==
  CASE c = "a" -> "A" [] c = "b" -> "B" [] c = "c" -> "C" [] c = "d" -> "D"
    [] c = "e" -> "E" [] c = "f" -> "F" [] c = "g" -> "G" [] OTHER -> c

\* a name of the grammar with its letter in upper case and its octave written out
FullName(n) ==
  <<UpperOf(n[1])>> \o WrittenAccidental(n)
    \o (IF WrittenOctaveDigits(n) = <<>> THEN <<"4">> ELSE WrittenOctaveDigits(n))

\* the chroma has one spelling in SHARPS and another in FLATS
HasTwoSpellings(c) == SHARPS[c + 1] # FLATS[c + 1]

\* C21: default octave and letter case.  A name without octave digits is built
\* with written octave 4, an explicit octave 0 or a negative octave is kept as
\* written, and the letter is case-insensitive: the record of a name is in every
\* field the record of the same name with an upper-case letter and the octave
\* written out, so Note({name: "c#"}) equals Note({name: "C#4"}).
C21_DefaultOctaveAndCase ==
  ( Returned("Note") /\ IsNamed(call.init) )
    => LET n     == call.init.name[1]
           d     == WrittenOctaveDigits(n)
           carry == (LetterOffset(n[1]) + RunAlteration(WrittenAccidental(n))) \div 12
       IN  /\ ret.valid
           /\ d = <<>> => ret.octave - carry = 4
           /\ d = <<"0">> => ret.octave - carry = 0
           /\ (d # <<>> /\ d[1] = "-") => ret.octave - carry = -NumeralValue(Tail(d))
           /\ ret = Note(NameInit(FullName(n)))
           /\ ret.letter = UpperOf(n[1])

\* C21 witness: "c#" was built as C#4
C21_Witness ==
  /\ Returned("Note")
  /\ call.init = NameInit(<<"c", "#">>)
  /\ ret.name = <<"C", "#", "4">> /\ ret.octave = 4 /\ ret.midi = 61

\* C22: spelling preference.  For every midi in 0..135 the record's pc is
\* SHARPS[midi mod 12] with sharps = true (the default) and FLATS[midi mod 12]
\* with sharps = false; the two records have the same chroma, octave and midi,
\* are equal for a white key and differ in pc and name for a black key.
C22_SpellingPreference ==
  ( MidiOnlyNote /\ InMidiRange(call.init.midi) )
    => LET m     == call.init.midi[1]
           s     == IF call.init.sharps = <<>> THEN TRUE ELSE call.init.sharps[1]
           other == Note([call.init EXCEPT !.sharps = <<~s>>])
       IN  /\ ret.valid /\ other.valid
           /\ ret.pc = (IF s THEN SHARPS ELSE FLATS)[(m % 12) + 1]
           /\ other.pc = (IF s THEN FLATS ELSE SHARPS)[(m % 12) + 1]
           /\ other.chroma = ret.chroma /\ other.octave = ret.octave
           /\ other.midi = ret.midi /\ other.frequency = ret.frequency
           /\ other.color = ret.color
           /\ ~HasTwoSpellings(m % 12) => other = ret
           /\ HasTwoSpellings(m % 12) => (other.pc # ret.pc /\ other.name # ret.name)

\* C22 witness: midi 61 with sharps = false is spelled Db
C22_Witness ==
  /\ MidiOnlyNote
  /\ call.init.midi = <<61>> /\ call.init.sharps = <<FALSE>>
  /\ ret.pc = <<"D", "b">>

\* C23: transpose by octave.  For every valid source note and amount k,
\* transposing on the octave property returns a valid note with the same pc,
\* with octave = source.octave + k and with midi = source.midi + 12 * k, also
\* for the spellings whose accidental carries into another octave (Cb, B#).
C23_TransposeByOctave ==
  ( /\ Returned("Transpose") /\ By.prop = "octave"
    /\ Note(call.note).valid )
    => LET src == Note(call.note)
       IN  /\ ret.valid
           /\ ret.pc = src.pc
           /\ ret.octave = src.octave + By.value
           /\ ret.midi = src.midi + 12 * By.value

\* C24: simplify preserves pitch.  For every valid name x and either value of
\* keepAccidental, simplify(x, keep) takes its pitch class from SHARPS when
\* (alteration(x) > 0) equals keep and from FLATS otherwise, and constructs to a
\* valid note with the midi, chroma and octave of Note({name: x}); with
\* keep = false a sharp spelling becomes the flat one and a flat spelling the
\* sharp one.
C24_SimplifyPreservesPitch ==
  ( Returned("simplify") /\ Note(NameInit(call.name)).valid )
    => LET a     == Note(NameInit(call.name))
           keep  == IF call.keepAccidental = <<>> THEN TRUE ELSE call.keepAccidental[1]
           table == IF (a.alteration > 0) = keep THEN SHARPS ELSE FLATS
           b     == Note(NameInit(ret))
       IN  /\ b.valid
           /\ b.pc = table[a.chroma + 1]
           /\ b.midi = a.midi /\ b.chroma = a.chroma /\ b.octave = a.octave
           /\ (~keep /\ HasTwoSpellings(a.chroma) /\ a.alteration > 0)
                => b.alteration < 0
           /\ (~keep /\ HasTwoSpellings(a.chroma) /\ a.alteration < 0)
                => b.alteration > 0

\* C24 witness: simplify("C#4", false) is "Db4"
C24_Witness ==
  /\ Returned("simplify")
  /\ call.name = <<"C", "#", "4">> /\ call.keepAccidental = <<FALSE>>
  /\ ret = <<"D", "b", "4">>

\* C25: range check on the frequency path.  When the MIDI number computed from
\* the frequency is not in 0..135, Note({frequency}) is the invalid sentinel,
\* and every valid record built from a frequency has 0 <= midi <= 135.
C25_FrequencyRange ==
  ( /\ Returned("Note") /\ call.init.name = <<>> /\ call.init.midi = <<>>
    /\ IsPositive(call.init.frequency) )
    => LET t == IF call.init.tuning = <<>> THEN 440000 ELSE call.init.tuning[1]
           m == toMidi(call.init.frequency[1], t)
       IN  /\ (m < 0 \/ m > 135) => ret = EmptyNote
           /\ ret.valid => (ret.midi >= 0 /\ ret.midi <= 135)

\* C26: construction is idempotent on its own rendered name.  For every valid
\* record r built from a name, Note({name: r.name}) has the name, octave and
\* midi of r, also when r came from a name whose accidental carries into
\* another octave ("Cb4", "B#4").
C26_RenderedNameIdempotent ==
  ( Returned("Note") /\ NameOnly(call.init) /\ ret.valid )
    => LET again == Note(NameInit(ret.name))
       IN  /\ again.valid
           /\ again.name = ret.name
           /\ again.octave = ret.octave
           /\ again.midi = ret.midi

\* C27: transpose of an invalid note stays invalid.  When the source init does
\* not construct a valid note, Transpose by any amount on midi, frequency or
\* octave returns the invalid sentinel.
C27_TransposeInvalid ==
  ( Returned("Transpose") /\ ~Note(call.note).valid )
    => ret = EmptyNote

\* C28: simplify and enharmonic of an invalid name.  When Note({name: x}) is the
\* invalid sentinel, simplify(x, keep) returns no string that constructs to a
\* valid note.
C28_SimplifyInvalid ==
  ( Returned("simplify") /\ ~Note(NameInit(call.name)).valid )
    => ~Note(NameInit(ret)).valid

\* C29: every valid record can be rebuilt from its own midi.  For every valid
\* record r, whatever built it, r.midi is in 0..135 and Note({midi: r.midi}) is
\* valid with the same midi; no name such as "C11" gives a valid record whose
\* midi lies outside 0..135.
C29_RebuildFromMidi ==
  ( Returned("Note") /\ ret.valid )
    => /\ ret.midi >= 0 /\ ret.midi <= 135
       /\ Note(MidiInit(ret.midi)).valid
       /\ Note(MidiInit(ret.midi)).midi = ret.midi

\* C30: white and black keys partition the chromas.  For every chroma c in
\* 0..11 exactly one of isWhite(c) and isBlack(c) is true, and isBlack(c) is
\* true exactly for the chromas whose SHARPS name carries an accidental
\* (1, 3, 6, 8, 10).
C30_KeyPartition ==
  /\ Returned("isBlack")
       => /\ ret = (call.chroma \in {1, 3, 6, 8, 10})
          /\ ret = (Len(SHARPS[call.chroma + 1]) > 1)
          /\ ret # isWhite(call.chroma)
  /\ Returned("isWhite") => ret # isBlack(call.chroma)

====
